---- MODULE Spec2Model ----
(***************************************************************************)
(* A model of node-logger (index.ts, the logFunctions version): the level  *)
(* ordering, the construction of loggers, the dispatch of a log call to    *)
(* the registered log functions, and the asynchronous writes of the        *)
(* default log functions to destinations[0] and destinations[1].           *)
(***************************************************************************)
EXTENDS Integers, Sequences, FiniteSets, TLC

(* ------------------------------------------------------------------ *)
(* Bounds of the model.                                                 *)
(* ------------------------------------------------------------------ *)
MaxLoggers == 2
MaxCalls == 1
\* File streams opened by constructions, failed ones included.
MaxOpen == 2
\* Log calls made while the writes of earlier calls are outstanding.
MaxOverlap == 2
\* Loggers of a process whose second logger is constructed directly.
MaxLineage == 3

(* ------------------------------------------------------------------ *)
(* Values.                                                              *)
(* ------------------------------------------------------------------ *)
Undefined == "undefined"

\* Object.keys(LogLevel), in declaration order.
logLevelNames == <<"OFF", "ERROR", "WARN", "INFO", "DEBUG">>

LevelNameSet == {logLevelNames[i] : i \in 1..Len(logLevelNames)}

\* The level tokens a caller may pass: the five names, two of them in another
\* case, and one token that is no level.
LevelTokens == LevelNameSet \cup {"info", "Warn", "TRACE"}

\* String.prototype.toUpperCase on the tokens of the model.
toUpperCase(s) ==
  CASE s = "info" -> "INFO"
    [] s = "Warn" -> "WARN"
    [] OTHER -> s

\* Array.prototype.indexOf: the 0-based index of the first occurrence, or -1.
indexOf(seq, x) ==
  IF \E i \in 1..Len(seq) : seq[i] = x
  THEN (CHOOSE i \in 1..Len(seq) : seq[i] = x /\ \A j \in 1..(i - 1) : seq[j] # x) - 1
  ELSE -1

\* checkLoglevel throws unless the token is one of logLevelNames: TRUE iff it
\* returns normally.
checkLoglevel(loglevel) == indexOf(logLevelNames, loglevel) # -1

isFirstLoglevelGreaterEqualSecond_strict(firstLoglevel, secondLoglevel) ==
  LET first == toUpperCase(firstLoglevel)
  IN  [threw |-> ~checkLoglevel(first),
       value |-> checkLoglevel(first)
                 /\ indexOf(logLevelNames, first) > indexOf(logLevelNames, secondLoglevel)]

\* isFirstLoglevelGreaterEqualSecond: upper-cases the first token, checks it
\* (throwing when it is no level) and compares the two indexes.  The second
\* token is neither upper-cased nor checked.
isFirstLoglevelGreaterEqualSecond(firstLoglevel, secondLoglevel) ==
  LET first == toUpperCase(firstLoglevel)
  IN  [threw |-> ~checkLoglevel(first),
       value |-> checkLoglevel(first)
                 /\ indexOf(logLevelNames, first) >= indexOf(logLevelNames, secondLoglevel)]

(* ------------------------------------------------------------------ *)
(* Sinks.  A sink handle is <<name, n>>; n numbers the file streams in   *)
(* the order fs.createWriteStream opened them and is 0 otherwise.        *)
(* ------------------------------------------------------------------ *)
NoSink == <<Undefined, 0>>
Stdout == <<"process.stdout", 0>>
Stderr == <<"process.stderr", 0>>
FileStream(n) == <<"file", n>>

\* Sinks the caller supplies as objects: sinkA, sinkB and sinkC are plain
\* streams (no isTTY attribute); sinkF and sinkG carry isTTY: false.
PlainSinks == {<<"sinkA", 0>>, <<"sinkB", 0>>, <<"sinkC", 0>>}
FalseTtySinks == {<<"sinkF", 0>>, <<"sinkG", 0>>}
CallerSinks == PlainSinks \cup FalseTtySinks

\* An element of a `destinations` option: a string, or an object.
StrItem(s) == [type |-> "string", s |-> s, n |-> 0]
ObjItem(h) == [type |-> "object", s |-> h[1], n |-> h[2]]
\* An object without a write method: no destination.
PlainObject == [type |-> "object", s |-> "plainObject", n |-> 0]

\* `"write" in dest` for the objects of the model.
hasWrite(item) == item # PlainObject

\* The value of sink.isTTY is true: the sink is an interactive terminal.
\* `ttys` is the set of process streams attached to a terminal.
isInteractive(sink, ttys) == sink \in ttys

\* `"isTTY" in sink`: the attribute exists, whatever its value.
hasIsTTYAttribute(sink, ttys) == sink \in ttys \/ sink \in FalseTtySinks

\* isTty: `"isTTY" in writableStream`, which throws a TypeError when the
\* operand is undefined.
isTty(writableStream, ttys) ==
  [threw |-> writableStream = NoSink,
   value |-> writableStream # NoSink /\ hasIsTTYAttribute(writableStream, ttys)]

\* destinations[i] of a JavaScript array (0-based): undefined past the end.
destAt(destinations, i) ==
  IF i + 1 <= Len(destinations) THEN destinations[i + 1] ELSE NoSink

(* ------------------------------------------------------------------ *)
(* Log functions.  A registered log function is one of the function     *)
(* values below; an element of a `logFunctions` option is a string, a   *)
(* function value or something else.                                    *)
(* ------------------------------------------------------------------ *)
BuiltinFns == {"defaultText", "defaultJson"}
CustomFn == "yourLogFunction"

FnName(name) == [type |-> "string", s |-> name]
FnValue(fn) == [type |-> "function", s |-> fn]
FnNumber == [type |-> "number", s |-> "42"]

CustomFnPath == "$baseDir/lib/log-helper-module.js:yourLogFunction"
MissingFnPath == "$baseDir/lib/log-helper-module.js:noSuchExport"
BogusFnName == "bogus"

\* tryParseCustomLogFnPath: "fn" with the export, "throw" when the module has
\* no such export, "undefined" when the string holds no ':'.
tryParseCustomLogFnPath(customLogFnPath) ==
  CASE customLogFnPath = CustomFnPath -> [kind |-> "fn", fn |-> CustomFn]
    [] customLogFnPath = MissingFnPath -> [kind |-> "throw", fn |-> Undefined]
    [] OTHER -> [kind |-> "undefined", fn |-> Undefined]

\* The body of the loop of setLogFunctions for one element: the function it
\* pushes, or the error it throws.
resolveLogFunction(logFunction) ==
  IF logFunction.type = "string"
  THEN IF logFunction.s = "defaultText" THEN [err |-> "none", fn |-> "defaultText"]
       ELSE IF logFunction.s = "defaultJson" THEN [err |-> "none", fn |-> "defaultText"]
       ELSE LET c == tryParseCustomLogFnPath(logFunction.s)
            IN  IF c.kind = "fn" THEN [err |-> "none", fn |-> c.fn]
                ELSE [err |-> "Error", fn |-> Undefined]
  ELSE IF logFunction.type = "function" THEN [err |-> "none", fn |-> logFunction.s]
  ELSE [err |-> "TypeError", fn |-> Undefined]

RECURSIVE setLogFunctionsFrom(_, _)
setLogFunctionsFrom(logFunctions, acc) ==
  IF logFunctions = <<>> THEN [err |-> "none", logFunctions |-> acc]
  ELSE LET r == resolveLogFunction(Head(logFunctions))
       IN  IF r.err # "none" THEN [err |-> r.err, logFunctions |-> acc]
           ELSE setLogFunctionsFrom(Tail(logFunctions), Append(acc, r.fn))

\* setLogFunctions: this.logFunctions starts empty and gets one function per
\* element, until an element throws.
setLogFunctions(logFunctions) == setLogFunctionsFrom(logFunctions, <<>>)

RECURSIVE setDestinationsFrom(_, _, _)
setDestinationsFrom(destinations, acc, nOpen) ==
  IF destinations = <<>> THEN [err |-> "none", destinations |-> acc, nOpen |-> nOpen]
  ELSE LET dest == Head(destinations)
           rest == Tail(destinations)
       IN  IF dest.type = "string"
           THEN IF dest.s = "stdout" THEN setDestinationsFrom(rest, Append(acc, Stdout), nOpen)
                ELSE IF dest.s = "stderr" THEN setDestinationsFrom(rest, Append(acc, Stderr), nOpen)
                ELSE setDestinationsFrom(rest, Append(acc, FileStream(nOpen + 1)), nOpen + 1)
           ELSE IF hasWrite(dest) THEN setDestinationsFrom(rest, Append(acc, <<dest.s, dest.n>>), nOpen)
           ELSE [err |-> "TypeError", destinations |-> acc, nOpen |-> nOpen]

\* setDestinations: resolves each element in order; a path opens a new file
\* stream (nOpen counts the streams opened so far); an element that is no
\* destination throws, leaving the streams opened before it open.
setDestinations(destinations, nOpen) == setDestinationsFrom(destinations, <<>>, nOpen)

\* Options of a construction: an absent option is Undefined / has* = FALSE.
\* `tags` is the property getOptions adds; the options of a caller have none.
Options(level, hasDest, destinations, hasFns, logFunctions) ==
  [level |-> level, hasDest |-> hasDest, destinations |-> destinations,
   hasFns |-> hasFns, logFunctions |-> logFunctions, tags |-> <<>>]

defaultOptions ==
  Options("DEBUG", TRUE, <<ObjItem(Stdout), ObjItem(Stderr)>>, TRUE, <<FnName("defaultText")>>)

\* node-logger.json as shipped, after parseConfigSync.
configFileOptions ==
  Options("INFO", TRUE, <<StrItem("logfile.log"), StrItem("stderr")>>, TRUE, <<FnName("defaultJson")>>)

RECURSIVE mapObjItem(_)
mapObjItem(sinks) ==
  IF sinks = <<>> THEN <<>> ELSE <<ObjItem(Head(sinks))>> \o mapObjItem(Tail(sinks))

RECURSIVE mapFnValue(_)
mapFnValue(fns) ==
  IF fns = <<>> THEN <<>> ELSE <<FnValue(Head(fns))>> \o mapFnValue(Tail(fns))

getOptions_noLevel(logger) ==
  [Options(Undefined, TRUE, mapObjItem(logger.destinations), TRUE, mapFnValue(logger.logFunctions))
     EXCEPT !.tags = logger.tags]

\* getOptions: the current fields of the logger, as options.
getOptions(logger) ==
  [Options(logger.level, TRUE, mapObjItem(logger.destinations), TRUE, mapFnValue(logger.logFunctions))
     EXCEPT !.tags = logger.tags]

constructLogger_optionTags(options, tags, nOpen) ==
  LET level == IF options.level = Undefined THEN defaultOptions.level ELSE options.level
      dests == IF options.hasDest THEN options.destinations ELSE defaultOptions.destinations
      fns == IF options.hasFns THEN options.logFunctions ELSE defaultOptions.logFunctions
      d == setDestinations(dests, nOpen)
      f == setLogFunctions(fns)
      none == [level |-> Undefined, tags |-> <<>>, destinations |-> <<>>, logFunctions |-> <<>>]
  IN  IF ~checkLoglevel(level) THEN [err |-> "Error", logger |-> none, nOpen |-> nOpen]
      ELSE IF d.err # "none" THEN [err |-> d.err, logger |-> none, nOpen |-> d.nOpen]
      ELSE IF f.err # "none" THEN [err |-> f.err, logger |-> none, nOpen |-> d.nOpen]
      ELSE [err |-> "none",
            logger |-> [level |-> level, tags |-> options.tags \o tags,
                        destinations |-> d.destinations, logFunctions |-> f.logFunctions],
            nOpen |-> d.nOpen]

\* The Logger constructor: [err, logger, nOpen].  err = "none" iff it returns.
\* The `tags` property of the options is not read: this.tags is the second
\* argument.
constructLogger(options, tags, nOpen) ==
  LET level == IF options.level = Undefined THEN defaultOptions.level ELSE options.level
      dests == IF options.hasDest THEN options.destinations ELSE defaultOptions.destinations
      fns == IF options.hasFns THEN options.logFunctions ELSE defaultOptions.logFunctions
      d == setDestinations(dests, nOpen)
      f == setLogFunctions(fns)
      none == [level |-> Undefined, tags |-> <<>>, destinations |-> <<>>, logFunctions |-> <<>>]
  IN  IF ~checkLoglevel(level) THEN [err |-> "Error", logger |-> none, nOpen |-> nOpen]
      ELSE IF d.err # "none" THEN [err |-> d.err, logger |-> none, nOpen |-> d.nOpen]
      ELSE IF f.err # "none" THEN [err |-> f.err, logger |-> none, nOpen |-> d.nOpen]
      ELSE [err |-> "none",
            logger |-> [level |-> level, tags |-> tags,
                        destinations |-> d.destinations, logFunctions |-> f.logFunctions],
            nOpen |-> d.nOpen]

(* ------------------------------------------------------------------ *)
(* Messages and lines.  A text is a sequence of tokens; LF is a line    *)
(* break inside a text and EOL the line terminator of os.EOL.           *)
(* ------------------------------------------------------------------ *)
LF == "\n"
EOL == "\n"
EscapedLF == "\\n"
IsoDate == "2016-05-01T15:35:19.997Z"

\* Tags of a call: an array of strings, or a single string.
TagArray(items) == [isArray |-> TRUE, items |-> items, str |-> ""]
TagString(str) == [isArray |-> FALSE, items |-> <<>>, str |-> str]

concat_spread(array, value) ==
  IF value.isArray THEN array \o value.items ELSE array

\* Array.prototype.concat with one argument: the elements of an array
\* argument, or the argument itself as one element.
concat(array, value) ==
  IF value.isArray THEN array \o value.items ELSE Append(array, value.str)

\* The primary argument of a call: a format string, or an Error.
PlainText == <<"hello">>
TwoLineText == <<"line1", LF, "line2">>
ErrorText == <<"[Error: boom]">>
ErrorStack == <<"Error: boom", LF, "    at main">>

\* util.format of the primary argument of the model.
format(primary) ==
  CASE primary = "plain" -> PlainText
    [] primary = "twoLines" -> TwoLineText
    [] primary = "error" -> ErrorText
    [] OTHER -> <<primary>>

RECURSIVE join(_, _)
\* Array.prototype.join.
join(strings, sep) ==
  IF strings = <<>> THEN <<>>
  ELSE IF Len(strings) = 1 THEN <<strings[1]>>
  ELSE <<strings[1], sep>> \o join(Tail(strings), sep)

escapeJson_raw(tokens) == tokens

RECURSIVE escapeJson(_)
\* JSON.stringify of the characters of a string: a line break becomes \n.
escapeJson(tokens) ==
  IF tokens = <<>> THEN <<>>
  ELSE <<IF Head(tokens) = LF THEN EscapedLF ELSE Head(tokens)>> \o escapeJson(Tail(tokens))

jsonString(tokens) == <<"\"">> \o escapeJson(tokens) \o <<"\"">>

RECURSIVE jsonStrings(_)
jsonStrings(strings) ==
  IF strings = <<>> THEN <<>>
  ELSE jsonString(<<Head(strings)>>)
       \o (IF Len(strings) > 1 THEN <<",">> ELSE <<>>)
       \o jsonStrings(Tail(strings))

\* (message.level + "     ").substr(0, 5)
padLevel(level) ==
  CASE level = "OFF" -> "OFF  "
    [] level = "WARN" -> "WARN "
    [] level = "INFO" -> "INFO "
    [] OTHER -> level

\* The line of LogFunction.defaultText.
textLine(message) ==
  <<IsoDate, " ", padLevel(message.level), " ", "[">> \o join(message.tags, ", ") \o <<"]", " - ">>
  \o (IF message.hasStack THEN message.text \o <<" STACK: ">> \o message.stack ELSE message.text)
  \o <<EOL>>

\* The line of LogFunction.defaultJson: JSON.stringify of the copy
\* {isoDate, level, tags, text, stack?}, then EOL.
jsonLine(message) ==
  <<"{", "\"isoDate\":">> \o jsonString(<<IsoDate>>)
  \o <<",", "\"level\":">> \o jsonString(<<message.level>>)
  \o <<",", "\"tags\":", "[">> \o jsonStrings(message.tags) \o <<"]">>
  \o <<",", "\"text\":">> \o jsonString(message.text)
  \o (IF message.hasStack THEN <<",", "\"stack\":">> \o jsonString(message.stack) ELSE <<>>)
  \o <<"}", EOL>>

\* The line a registered log function writes.
lineOf(fn, message) ==
  IF fn = "defaultJson" THEN jsonLine(message) ELSE textLine(message)

(* ------------------------------------------------------------------ *)
(* writeToDefaultDestination, up to its first write.                    *)
(* ------------------------------------------------------------------ *)
writeToDefaultDestination_noSameCheck(level, shouldBeLogged, destinations, ttys) ==
  LET d0 == destAt(destinations, 0)
      d1 == destAt(destinations, 1)
      cmp == isFirstLoglevelGreaterEqualSecond(level, "INFO")
      writeToDest1 == ~cmp.value /\ d1 # NoSink
      t0 == isTty(d0, ttys)
      t1 == isTty(d1, ttys)
      threw == cmp.threw \/ t0.threw \/ (t0.value /\ t1.threw)
      isBothTty == t0.value /\ t1.value
      writeToDest0 == ~(writeToDest1 /\ isBothTty)
      streamA == IF writeToDest1 THEN d1 ELSE d0
      streamB == IF writeToDest1 /\ writeToDest0 THEN d0 ELSE NoSink
  IN  IF ~shouldBeLogged THEN [state |-> "resolved", streamA |-> NoSink, streamB |-> NoSink]
      ELSE IF threw \/ streamA = NoSink
           THEN [state |-> "rejected", streamA |-> NoSink, streamB |-> NoSink]
      ELSE [state |-> "pending", streamA |-> streamA, streamB |-> streamB]

writeToDefaultDestination_lastDest(level, shouldBeLogged, destinations, ttys) ==
  LET d0 == destAt(destinations, 0)
      d1 == destAt(destinations, Len(destinations) - 1)
      cmp == isFirstLoglevelGreaterEqualSecond(level, "INFO")
      writeToDest1 == ~cmp.value /\ d1 # NoSink /\ d0 # d1
      t0 == isTty(d0, ttys)
      t1 == isTty(d1, ttys)
      threw == cmp.threw \/ t0.threw \/ (t0.value /\ t1.threw)
      isBothTty == t0.value /\ t1.value
      writeToDest0 == ~(writeToDest1 /\ isBothTty)
      streamA == IF writeToDest1 THEN d1 ELSE d0
      streamB == IF writeToDest1 /\ writeToDest0 THEN d0 ELSE NoSink
  IN  IF ~shouldBeLogged THEN [state |-> "resolved", streamA |-> NoSink, streamB |-> NoSink]
      ELSE IF threw \/ streamA = NoSink
           THEN [state |-> "rejected", streamA |-> NoSink, streamB |-> NoSink]
      ELSE [state |-> "pending", streamA |-> streamA, streamB |-> streamB]

writeToDefaultDestination_noDedup(level, shouldBeLogged, destinations, ttys) ==
  LET d0 == destAt(destinations, 0)
      d1 == destAt(destinations, 1)
      cmp == isFirstLoglevelGreaterEqualSecond(level, "INFO")
      writeToDest1 == ~cmp.value /\ d1 # NoSink /\ d0 # d1
      t0 == isTty(d0, ttys)
      t1 == isTty(d1, ttys)
      threw == cmp.threw \/ t0.threw \/ (t0.value /\ t1.threw)
      streamA == IF writeToDest1 THEN d1 ELSE d0
      streamB == IF writeToDest1 THEN d0 ELSE NoSink
  IN  IF ~shouldBeLogged THEN [state |-> "resolved", streamA |-> NoSink, streamB |-> NoSink]
      ELSE IF threw \/ streamA = NoSink
           THEN [state |-> "rejected", streamA |-> NoSink, streamB |-> NoSink]
      ELSE [state |-> "pending", streamA |-> streamA, streamB |-> streamB]

\* The promise executor of writeToDefaultDestination: "resolved" when the
\* message is filtered, "rejected" when the executor throws before it writes
\* (isTty of an undefined destination), else "pending" with the stream written
\* first (streamA) and the stream written from its callback (streamB).
writeToDefaultDestination(level, shouldBeLogged, destinations, ttys) ==
  LET d0 == destAt(destinations, 0)
      d1 == destAt(destinations, 1)
      cmp == isFirstLoglevelGreaterEqualSecond(level, "INFO")
      writeToDest1 == ~cmp.value /\ d1 # NoSink /\ d0 # d1
      t0 == isTty(d0, ttys)
      t1 == isTty(d1, ttys)
      threw == cmp.threw \/ t0.threw \/ (t0.value /\ t1.threw)
      isBothTty == t0.value /\ t1.value
      writeToDest0 == ~(writeToDest1 /\ isBothTty)
      streamA == IF writeToDest1 THEN d1 ELSE d0
      streamB == IF writeToDest1 /\ writeToDest0 THEN d0 ELSE NoSink
  IN  IF ~shouldBeLogged THEN [state |-> "resolved", streamA |-> NoSink, streamB |-> NoSink]
      ELSE IF threw \/ streamA = NoSink
           THEN [state |-> "rejected", streamA |-> NoSink, streamB |-> NoSink]
      ELSE [state |-> "pending", streamA |-> streamA, streamB |-> streamB]

(* ------------------------------------------------------------------ *)
(* The call surface: which doLog each method makes.                     *)
(* ------------------------------------------------------------------ *)
NoTags == TagArray(<<>>)

\* error/error2 ... debug/debug2: doLog(LEVEL, tags or [], format).
methodLevel(method) ==
  CASE method \in {"error", "error2"} -> "ERROR"
    [] method \in {"warn", "warn2"} -> "WARN"
    [] method \in {"info", "info2"} -> "INFO"
    [] method \in {"debug", "debug2"} -> "DEBUG"
    [] OTHER -> Undefined

LevelMethods == {"error", "warn", "info", "debug"}
TaggedLevelMethods == {"error2", "warn2", "info2", "debug2"}

doLogArguments_upper(method, arg1, tags, primary) ==
  IF method \in LevelMethods
  THEN [level |-> methodLevel(method), tags |-> NoTags, primary |-> primary, text |-> format(primary)]
  ELSE IF method \in TaggedLevelMethods
  THEN [level |-> methodLevel(method), tags |-> tags, primary |-> primary, text |-> format(primary)]
  ELSE IF method = "log"
  THEN IF indexOf(logLevelNames, toUpperCase(arg1)) # -1
       THEN [level |-> toUpperCase(arg1), tags |-> NoTags, primary |-> primary, text |-> format(primary)]
       ELSE [level |-> "INFO", tags |-> NoTags, primary |-> arg1,
             text |-> <<arg1, " ">> \o format(primary)]
  ELSE IF indexOf(logLevelNames, toUpperCase(arg1)) # -1
       THEN [level |-> toUpperCase(arg1), tags |-> tags, primary |-> primary, text |-> format(primary)]
       ELSE [level |-> "INFO", tags |-> TagString(arg1), primary |-> "tags",
             text |-> <<"tags", " ">> \o format(primary)]

\* The arguments of the doLog a call makes: [level, tags, text].  `arg1` is
\* the leading argument of log/log2 (a level token, or anything else).
doLogArguments(method, arg1, tags, primary) ==
  IF method \in LevelMethods
  THEN [level |-> methodLevel(method), tags |-> NoTags, primary |-> primary, text |-> format(primary)]
  ELSE IF method \in TaggedLevelMethods
  THEN [level |-> methodLevel(method), tags |-> tags, primary |-> primary, text |-> format(primary)]
  ELSE IF method = "log"
  THEN IF indexOf(logLevelNames, arg1) # -1
       THEN [level |-> arg1, tags |-> NoTags, primary |-> primary, text |-> format(primary)]
       \* arg1 is the format string and the rest its arguments.
       ELSE [level |-> "INFO", tags |-> NoTags, primary |-> arg1,
             text |-> <<arg1, " ">> \o format(primary)]
  ELSE \* log2
       IF indexOf(logLevelNames, arg1) # -1
       THEN [level |-> arg1, tags |-> tags, primary |-> primary, text |-> format(primary)]
       \* arg1 is taken for the tags, the tags for the format string.
       ELSE [level |-> "INFO", tags |-> TagString(arg1), primary |-> "tags",
             text |-> <<"tags", " ">> \o format(primary)]

shouldBeLogged_mergedTags(logger, level, tags) ==
  LET cmp == isFirstLoglevelGreaterEqualSecond(logger.level, level)
  IN  [threw |-> cmp.threw,
       value |-> cmp.value \/ indexOf(concat(logger.tags, tags), "always") > -1]

shouldBeLogged_swapped(logger, level, tags) ==
  LET cmp == isFirstLoglevelGreaterEqualSecond(level, toUpperCase(logger.level))
  IN  [threw |-> ~checkLoglevel(toUpperCase(logger.level)),
       value |-> checkLoglevel(toUpperCase(logger.level))
                 /\ (cmp.value \/ indexOf(concat(<<>>, tags), "always") > -1)]

\* doLog, the filter: the level comparison (which throws when this.level is
\* no level), or "always" among the tags of the call.
shouldBeLogged(logger, level, tags) ==
  LET cmp == isFirstLoglevelGreaterEqualSecond(logger.level, level)
  IN  [threw |-> cmp.threw,
       value |-> cmp.value \/ indexOf(concat(<<>>, tags), "always") > -1]

\* doLog, the message.
buildMessage(logger, level, tags, primary, text) ==
  [level |-> level,
   tags |-> concat(logger.tags, tags),
   text |-> text,
   hasStack |-> primary = "error",
   stack |-> IF primary = "error" THEN ErrorStack ELSE <<>>]

\* One registered log function called by doLog: the state of its promise.
callLogFn(fn, message, should, destinations, ttys) ==
  IF fn \in BuiltinFns
  THEN LET w == writeToDefaultDestination(message.level, should, destinations, ttys)
       IN  [fn |-> fn, state |-> w.state, streamA |-> w.streamA, streamB |-> w.streamB,
            line |-> lineOf(fn, message),
            args |-> [message |-> message, shouldBeLogged |-> should,
                      destinations |-> destinations]]
  ELSE \* a function of the caller: it writes to no sink of the model and its
       \* promise is settled by the caller's code.
       [fn |-> fn, state |-> "pending", streamA |-> NoSink, streamB |-> NoSink, line |-> <<>>,
        args |-> [message |-> message, shouldBeLogged |-> should,
                  destinations |-> destinations]]

RECURSIVE callLogFns_whenLogged(_, _, _, _, _)
callLogFns_whenLogged(fns, message, should, destinations, ttys) ==
  IF fns = <<>> \/ ~should THEN <<>>
  ELSE <<callLogFn(Head(fns), message, should, destinations, ttys)>>
       \o callLogFns_whenLogged(Tail(fns), message, should, destinations, ttys)

\* The loop of doLog over this.logFunctions: each is called with the message,
\* shouldBeLogged and this.destinations.
RECURSIVE callLogFns(_, _, _, _, _)
callLogFns(fns, message, should, destinations, ttys) ==
  IF fns = <<>> THEN <<>>
  ELSE <<callLogFn(Head(fns), message, should, destinations, ttys)>>
       \o callLogFns(Tail(fns), message, should, destinations, ttys)

RECURSIVE firstWrites_both(_, _, _)
firstWrites_both(fnStates, call, f) ==
  IF f > Len(fnStates) THEN <<>>
  ELSE (IF fnStates[f].state = "pending" /\ fnStates[f].streamA # NoSink
        THEN <<[sink |-> fnStates[f].streamA, line |-> fnStates[f].line, call |-> call,
                fn |-> f, slot |-> "A", state |-> "pending"]>>
             \o (IF fnStates[f].streamB # NoSink
                 THEN <<[sink |-> fnStates[f].streamB, line |-> fnStates[f].line,
                         call |-> call, fn |-> f, slot |-> "B", state |-> "pending"]>>
                 ELSE <<>>)
        ELSE <<>>)
       \o firstWrites_both(fnStates, call, f + 1)

\* The writes the log functions of one call issue synchronously, in order.
RECURSIVE firstWrites(_, _, _)
firstWrites(fnStates, call, f) ==
  IF f > Len(fnStates) THEN <<>>
  ELSE (IF fnStates[f].state = "pending" /\ fnStates[f].streamA # NoSink
        THEN <<[sink |-> fnStates[f].streamA, line |-> fnStates[f].line, call |-> call,
                fn |-> f, slot |-> "A", state |-> "pending"]>>
        ELSE <<>>)
       \o firstWrites(fnStates, call, f + 1)

\* Promise.all over the promises of the log functions.
promiseAll(fnStates) ==
  IF \E f \in 1..Len(fnStates) : fnStates[f].state = "rejected" THEN "rejected"
  ELSE IF \A f \in 1..Len(fnStates) : fnStates[f].state = "resolved" THEN "resolved"
  ELSE "pending"

(* ------------------------------------------------------------------ *)
(* State.                                                               *)
(* ------------------------------------------------------------------ *)
VARIABLES
  ttys,      \* the process streams that are interactive terminals
  loggers,   \* the Logger objects constructed so far, in order
  instance,  \* Logger.instance: an index of loggers, or 0 for undefined
  nOpen,     \* the number of file streams fs.createWriteStream has opened
  calls,     \* the log calls made so far, with the promise of each log function
  writes,    \* the sink writes issued so far, in the order they were issued
  last       \* the last operation of the caller and how it ended

vars == <<ttys, loggers, instance, nOpen, calls, writes, last>>

NoOptions == Options(Undefined, FALSE, <<>>, FALSE, <<>>)

\* An operation of the caller: its name, the logger it is about (or 0), the
\* error it threw (or "none"), the options of a construction and the value
\* returned by a query; args are the levels of a comparison, or the tags the
\* constructor was called with.
Op(op, logger, err, options, value) ==
  [op |-> op, logger |-> logger, err |-> err, options |-> options, value |-> value,
   args |-> <<>>]

CallerFilename == "app.js"

(* ------------------------------------------------------------------ *)
(* Construction.                                                        *)
(* ------------------------------------------------------------------ *)
Construct_keepInstance(op, options, tags) ==
  LET r == constructLogger(options, tags, nOpen)
  IN  /\ r.nOpen <= MaxOpen
      /\ nOpen' = r.nOpen
      /\ IF r.err = "none"
         THEN /\ loggers' = Append(loggers, r.logger)
              /\ instance' = IF instance = 0 THEN Len(loggers) + 1 ELSE instance
         ELSE UNCHANGED <<loggers, instance>>
      /\ last' = [Op(op, IF r.err = "none" THEN Len(loggers) + 1 ELSE 0, r.err, options, FALSE)
                    EXCEPT !.args = tags]
      /\ UNCHANGED <<ttys, calls, writes>>

\* new Logger(options, tags): on success the logger is appended and becomes
\* Logger.instance; on a throw only the file streams opened so far remain.
Construct(op, options, tags) ==
  LET r == constructLogger(options, tags, nOpen)
  IN  /\ r.nOpen <= MaxOpen
      /\ nOpen' = r.nOpen
      /\ IF r.err = "none"
         THEN /\ loggers' = Append(loggers, r.logger)
              /\ instance' = Len(loggers) + 1
         ELSE UNCHANGED <<loggers, instance>>
      /\ last' = [Op(op, IF r.err = "none" THEN Len(loggers) + 1 ELSE 0, r.err, options, FALSE)
                    EXCEPT !.args = tags]
      /\ UNCHANGED <<ttys, calls, writes>>

NewLogger(options, tags) == Construct("new", options, tags)

CreateFromArguments_reresolve(options, tags) ==
  Construct("createFromArguments", options, <<CallerFilename>> \o tags)

\* createFromArguments: clones Logger.instance when there is one.
CreateFromArguments(options, tags) ==
  LET tagsWithCaller == <<CallerFilename>> \o tags
  IN  IF instance # 0
      THEN Construct("createFromArguments", getOptions(loggers[instance]), tagsWithCaller)
      ELSE Construct("createFromArguments", options, tagsWithCaller)

\* createFromConfigFile: clones Logger.instance when there is one, else reads
\* node-logger.json.
CreateFromConfigFile(tags) ==
  LET tagsWithCaller == <<CallerFilename>> \o tags
  IN  IF instance # 0
      THEN Construct("createFromConfigFile", getOptions(loggers[instance]), tagsWithCaller)
      ELSE Construct("createFromConfigFile", configFileOptions, tagsWithCaller)

(* ------------------------------------------------------------------ *)
(* Assignments to the public fields of a logger.                        *)
(* ------------------------------------------------------------------ *)
AssignLevel(i, token) ==
  /\ i \in 1..Len(loggers)
  /\ loggers[i].level # token
  /\ loggers' = [loggers EXCEPT ![i].level = token]
  /\ last' = Op("assign", i, "none", NoOptions, FALSE)
  /\ UNCHANGED <<ttys, instance, nOpen, calls, writes>>

AssignDestinations(i, sinks) ==
  /\ i \in 1..Len(loggers)
  /\ loggers[i].destinations # sinks
  /\ loggers' = [loggers EXCEPT ![i].destinations = sinks]
  /\ last' = Op("assign", i, "none", NoOptions, FALSE)
  /\ UNCHANGED <<ttys, instance, nOpen, calls, writes>>

AssignLogFunctions(i, fns) ==
  /\ i \in 1..Len(loggers)
  /\ loggers[i].logFunctions # fns
  /\ loggers' = [loggers EXCEPT ![i].logFunctions = fns]
  /\ last' = Op("assign", i, "none", NoOptions, FALSE)
  /\ UNCHANGED <<ttys, instance, nOpen, calls, writes>>

(* ------------------------------------------------------------------ *)
(* A log call.                                                          *)
(* ------------------------------------------------------------------ *)
LogCall_prepend(i, method, arg1, tags, primary) ==
  LET logger == loggers[i]
      a == doLogArguments(method, arg1, tags, primary)
      should == shouldBeLogged(logger, a.level, a.tags)
      message == buildMessage(logger, a.level, a.tags, a.primary, a.text)
      fnStates == IF should.threw THEN <<>>
                  ELSE callLogFns(logger.logFunctions, message, should.value,
                                  logger.destinations, ttys)
      c == Len(calls) + 1
  IN  /\ i \in 1..Len(loggers)
      /\ calls' = Append(calls,
           [logger |-> i, method |-> method, arg1 |-> arg1, argTags |-> tags,
            level |-> a.level, tags |-> a.tags,
            loggerLevel |-> logger.level, loggerTags |-> logger.tags,
            destinations |-> logger.destinations, logFunctions |-> logger.logFunctions,
            threw |-> should.threw, shouldBeLogged |-> should.value,
            message |-> message, fns |-> fnStates])
      /\ writes' = firstWrites(fnStates, c, 1) \o writes
      /\ last' = Op("log", i, IF should.threw THEN "Error" ELSE "none", NoOptions, FALSE)
      /\ UNCHANGED <<ttys, loggers, instance, nOpen>>

\* doLog: throws when this.level is no level; else builds the message, calls
\* every registered log function with it and returns Promise.all of their
\* promises.  The writes the log functions issue on the way are appended.
LogCall(i, method, arg1, tags, primary) ==
  LET logger == loggers[i]
      a == doLogArguments(method, arg1, tags, primary)
      should == shouldBeLogged(logger, a.level, a.tags)
      message == buildMessage(logger, a.level, a.tags, a.primary, a.text)
      fnStates == IF should.threw THEN <<>>
                  ELSE callLogFns(logger.logFunctions, message, should.value,
                                  logger.destinations, ttys)
      c == Len(calls) + 1
  IN  /\ i \in 1..Len(loggers)
      /\ calls' = Append(calls,
           [logger |-> i, method |-> method, arg1 |-> arg1, argTags |-> tags,
            level |-> a.level, tags |-> a.tags,
            loggerLevel |-> logger.level, loggerTags |-> logger.tags,
            destinations |-> logger.destinations, logFunctions |-> logger.logFunctions,
            threw |-> should.threw, shouldBeLogged |-> should.value,
            message |-> message, fns |-> fnStates])
      /\ writes' = writes \o firstWrites(fnStates, c, 1)
      /\ last' = Op("log", i, IF should.threw THEN "Error" ELSE "none", NoOptions, FALSE)
      /\ UNCHANGED <<ttys, loggers, instance, nOpen>>

\* A sink that serializes its writes signals their completion in the order
\* they were issued to it: write k is the oldest outstanding write of its sink.
OldestAtItsSink(k) ==
  \A j \in 1..(k - 1) : writes[j].sink = writes[k].sink => writes[j].state # "pending"

afterWrite_noSecond(fnState, slot) ==
  [state |-> "resolved", writeB |-> FALSE]

afterWrite_early(fnState, slot) ==
  [state |-> "resolved", writeB |-> slot = "A" /\ fnState.streamB # NoSink]

\* The callback of streamA.write: writes to streamB when there is one and
\* resolves from its callback, else resolves.  The callbacks take no
\* argument: an error the sink reports is dropped.
afterWrite(fnState, slot) ==
  IF slot = "A" /\ fnState.streamB # NoSink
  THEN [state |-> "pending", writeB |-> TRUE]
  ELSE [state |-> "resolved", writeB |-> FALSE]

CompleteWrite_reread(k, ok) ==
  /\ k \in 1..Len(writes)
  /\ writes[k].state = "pending"
  /\ LET w == writes[k]
         fnState == calls[w.call].fns[w.fn]
         r == afterWrite(fnState, w.slot)
         logger == loggers[calls[w.call].logger]
         done == [writes EXCEPT ![k].state = IF ok THEN "done" ELSE "failed"]
     IN  /\ calls' = [calls EXCEPT ![w.call].fns[w.fn].state = r.state]
         /\ writes' = IF r.writeB
                      THEN Append(done, [sink |-> destAt(logger.destinations, 0),
                                         line |-> lineOf(fnState.fn, calls[w.call].message),
                                         call |-> w.call, fn |-> w.fn, slot |-> "B",
                                         state |-> "pending"])
                      ELSE done
  /\ UNCHANGED <<ttys, loggers, instance, nOpen, last>>

\* A sink signals the completion of write k, successfully or with an error,
\* and the callback of the write runs.
CompleteWrite(k, ok) ==
  /\ k \in 1..Len(writes)
  /\ writes[k].state = "pending"
  /\ LET w == writes[k]
         fnState == calls[w.call].fns[w.fn]
         r == afterWrite(fnState, w.slot)
         done == [writes EXCEPT ![k].state = IF ok THEN "done" ELSE "failed"]
     IN  /\ calls' = [calls EXCEPT ![w.call].fns[w.fn].state = r.state]
         /\ writes' = IF r.writeB
                      THEN Append(done, [sink |-> fnState.streamB, line |-> fnState.line,
                                         call |-> w.call, fn |-> w.fn, slot |-> "B",
                                         state |-> "pending"])
                      ELSE done
  /\ UNCHANGED <<ttys, loggers, instance, nOpen, last>>

\* The promise of a log function of the caller settles.
CustomFnSettles(c, f) ==
  /\ c \in 1..Len(calls)
  /\ f \in 1..Len(calls[c].fns)
  /\ calls[c].fns[f].fn \notin BuiltinFns
  /\ calls[c].fns[f].state = "pending"
  /\ calls' = [calls EXCEPT ![c].fns[f].state = "resolved"]
  /\ UNCHANGED <<ttys, loggers, instance, nOpen, writes, last>>

(* ------------------------------------------------------------------ *)
(* The inputs of the model.                                             *)
(* ------------------------------------------------------------------ *)
SinkA == <<"sinkA", 0>>
SinkB == <<"sinkB", 0>>
SinkC == <<"sinkC", 0>>
SinkF == <<"sinkF", 0>>
SinkG == <<"sinkG", 0>>

\* The environment: neither, one or both of stdout and stderr are terminals.
TtyEnvs == {{}, {Stderr}, {Stdout, Stderr}}

\* Tags of a tagged call.
DupTags == TagArray(<<"t", "t">>)
AlwaysInArray == TagArray(<<"t", "always">>)
AlwaysString == TagString("always")
CallTags == {DupTags, AlwaysInArray, AlwaysString}

\* The calls of the model: [method, arg1, tags, primary].
CallInput(method, arg1, tags, primary) ==
  [method |-> method, arg1 |-> arg1, tags |-> tags, primary |-> primary]

CallInputs ==
  {CallInput(m, Undefined, NoTags, "plain") : m \in LevelMethods}
  \cup {CallInput(m, Undefined, t, "plain") : m \in TaggedLevelMethods, t \in {AlwaysInArray, AlwaysString}}
  \cup {CallInput(m, Undefined, DupTags, "plain") : m \in {"error2", "info2"}}
  \cup {CallInput("log", a, NoTags, "plain") : a \in LevelTokens}
  \cup {CallInput("log2", a, t, "plain") : a \in {"OFF", "TRACE"}, t \in {DupTags, AlwaysString}}
  \cup {CallInput("error", Undefined, NoTags, "error"), CallInput("info", Undefined, NoTags, "twoLines")}

(* ------------------------------------------------------------------ *)
(* Dispatch: one logger, as a construction and assignments to its       *)
(* fields leave it, and the calls made on it.                           *)
(* ------------------------------------------------------------------ *)
LoggerOf(level, tags, destinations, logFunctions) ==
  [level |-> level, tags |-> tags, destinations |-> destinations, logFunctions |-> logFunctions]

Config(env, logger) == [ttys |-> env, logger |-> logger]

\* Every level token, with two distinct plain sinks; and a logger whose own
\* tags hold "always".
LevelConfigs ==
  {Config({}, LoggerOf(l, <<CallerFilename>>, <<SinkA, SinkB>>, <<"defaultText">>)) : l \in LevelTokens}
  \cup {Config({}, LoggerOf(l, <<"always">>, <<SinkA, SinkB>>, <<"defaultText">>)) : l \in {"OFF", "WARN"}}

\* Every shape of the destinations: the process streams in every
\* environment, files and sinks of the caller.
DestinationConfigs ==
  {Config(e, LoggerOf("DEBUG", <<CallerFilename>>, d, <<"defaultJson">>)) :
     e \in TtyEnvs,
     d \in {<<Stdout, Stderr>>, <<Stdout>>, <<Stdout, Stdout>>, <<FileStream(1), Stderr>>}}
  \cup {Config({}, LoggerOf("DEBUG", <<CallerFilename>>, d, <<"defaultJson">>)) :
     d \in {<<FileStream(1)>>, <<SinkF, SinkG>>, <<SinkA, SinkB, SinkC>>, <<>>}}

\* Every shape of the log functions.
LogFunctionConfigs ==
  {Config({}, LoggerOf("INFO", <<CallerFilename, "touch_feature">>, <<SinkA>>, f)) :
     f \in {<<>>, <<"defaultText", "defaultJson">>, <<CustomFn>>, <<"defaultJson", CustomFn>>}}

DispatchConfigs == LevelConfigs \cup DestinationConfigs \cup LogFunctionConfigs

InitDispatch ==
  /\ \E cfg \in DispatchConfigs :
       /\ ttys = cfg.ttys
       /\ loggers = <<cfg.logger>>
       /\ nOpen = Cardinality({i \in 1..Len(cfg.logger.destinations) :
                                cfg.logger.destinations[i][1] = "file"})
  /\ instance = 1
  /\ calls = <<>>
  /\ writes = <<>>
  /\ last = Op("new", 1, "none", NoOptions, FALSE)

NextDispatch ==
  \/ \E i \in 1..Len(loggers), in \in CallInputs :
       Len(calls) < MaxCalls /\ LogCall(i, in.method, in.arg1, in.tags, in.primary)
  \/ \E k \in 1..Len(writes), ok \in BOOLEAN : CompleteWrite(k, ok)
  \/ \E c \in 1..Len(calls) : \E f \in 1..Len(calls[c].fns) : CustomFnSettles(c, f)

SpecDispatch == InitDispatch /\ [][NextDispatch]_vars

(* ------------------------------------------------------------------ *)
(* Construction: the loggers of a process, from the first construction  *)
(* on, and the assignments to their fields.                             *)
(* ------------------------------------------------------------------ *)
\* Options that construct.
GoodOptions ==
  { NoOptions,
    Options("WARN", TRUE, <<StrItem("logfile.log"), StrItem("stdout")>>, TRUE, <<FnName("defaultJson")>>),
    Options(Undefined, TRUE, <<ObjItem(SinkA)>>, TRUE, <<FnName("defaultText"), FnName(CustomFnPath)>>) }

\* Options that throw: a token that is no level, an object that is no sink
\* after a path, a name that is no log function after a path, an export the
\* module does not have, a log function that is a number.
BadOptions ==
  { Options("TRACE", FALSE, <<>>, FALSE, <<>>),
    Options(Undefined, TRUE, <<StrItem("logfile.log"), PlainObject>>, FALSE, <<>>),
    Options(Undefined, TRUE, <<StrItem("logfile.log")>>, TRUE, <<FnName(BogusFnName)>>),
    Options(Undefined, FALSE, <<>>, TRUE, <<FnName(MissingFnPath)>>),
    Options(Undefined, FALSE, <<>>, TRUE, <<FnNumber>>) }

OptionMenu == GoodOptions \cup BadOptions

CreationTags == {<<>>, <<"touch_feature">>}

\* Values assigned to the fields of a logger after its construction.
AssignedLevels == {"INFO", "info"}
AssignedDestinations == {<<SinkA, SinkB>>}
AssignedLogFunctions == {<<"defaultJson">>}

Init ==
  /\ ttys = {Stdout, Stderr}
  /\ loggers = <<>>
  /\ instance = 0
  /\ nOpen = 0
  /\ calls = <<>>
  /\ writes = <<>>
  /\ last = Op("start", 0, "none", NoOptions, FALSE)

Next ==
  \/ \E o \in OptionMenu, t \in CreationTags :
       Len(loggers) < MaxLoggers /\ NewLogger(o, t)
  \/ \E o \in OptionMenu, t \in CreationTags :
       Len(loggers) < MaxLoggers /\ CreateFromArguments(o, t)
  \/ \E t \in CreationTags :
       Len(loggers) < MaxLoggers /\ CreateFromConfigFile(t)
  \/ \E i \in 1..Len(loggers), token \in AssignedLevels : AssignLevel(i, token)
  \/ \E i \in 1..Len(loggers), d \in AssignedDestinations : AssignDestinations(i, d)
  \/ \E i \in 1..Len(loggers), f \in AssignedLogFunctions : AssignLogFunctions(i, f)

Spec == Init /\ [][Next]_vars

(* ------------------------------------------------------------------ *)
(* The loggers of a process whose first logger was created from the     *)
(* configuration file, as the test and the README examples do.          *)
(* ------------------------------------------------------------------ *)
\* The logger createFromConfigFile() constructs from node-logger.json.
FirstLogger == constructLogger(configFileOptions, <<CallerFilename>>, 0).logger

InitAfterFirst ==
  /\ ttys = {Stdout, Stderr}
  /\ loggers = <<FirstLogger>>
  /\ instance = 1
  /\ nOpen = constructLogger(configFileOptions, <<CallerFilename>>, 0).nOpen
  /\ calls = <<>>
  /\ writes = <<>>
  /\ last = [Op("createFromConfigFile", 1, "none", configFileOptions, FALSE)
               EXCEPT !.args = <<CallerFilename>>]

SpecAfterFirst == InitAfterFirst /\ [][Next]_vars

(* ------------------------------------------------------------------ *)
(* The loggers of a process that created its first logger from the      *)
(* configuration file and constructed its second one directly, with     *)
(* options of its own.                                                  *)
(* ------------------------------------------------------------------ *)
SecondOptions ==
  Options("WARN", TRUE, <<ObjItem(SinkC)>>, TRUE, <<FnName("defaultText"), FnName(CustomFnPath)>>)

\* The logger new Logger(SecondOptions, ["touch_feature"]) constructs.
SecondLogger ==
  constructLogger(SecondOptions, <<"touch_feature">>,
                  constructLogger(configFileOptions, <<CallerFilename>>, 0).nOpen).logger

\* Options of the constructions that follow: defaults, and a token that is
\* no level.
LaterOptions == {NoOptions, Options("TRACE", FALSE, <<>>, FALSE, <<>>)}

InitLineage ==
  /\ ttys = {Stdout, Stderr}
  /\ loggers = <<FirstLogger, SecondLogger>>
  /\ instance = 2
  /\ nOpen = constructLogger(configFileOptions, <<CallerFilename>>, 0).nOpen
  /\ calls = <<>>
  /\ writes = <<>>
  /\ last = [Op("new", 2, "none", SecondOptions, FALSE) EXCEPT !.args = <<"touch_feature">>]

NextLineage ==
  \/ \E o \in LaterOptions, t \in CreationTags :
       Len(loggers) < MaxLineage /\ NewLogger(o, t)
  \/ \E o \in LaterOptions, t \in CreationTags :
       Len(loggers) < MaxLineage /\ CreateFromArguments(o, t)
  \/ \E t \in CreationTags :
       Len(loggers) < MaxLineage /\ CreateFromConfigFile(t)
  \/ \E i \in 1..Len(loggers), token \in AssignedLevels : AssignLevel(i, token)
  \/ \E i \in 1..Len(loggers), d \in AssignedDestinations : AssignDestinations(i, d)
  \/ \E i \in 1..Len(loggers), f \in AssignedLogFunctions : AssignLogFunctions(i, f)

SpecLineage == InitLineage /\ [][NextLineage]_vars

(* ------------------------------------------------------------------ *)
(* Calls in flight: the logger created from the configuration file,     *)
(* the calls made on it and the assignments to its fields while their   *)
(* writes are outstanding.                                              *)
(* ------------------------------------------------------------------ *)
InFlightInputs == {in \in CallInputs : in.method \in LevelMethods}

NextInFlight ==
  \/ \E i \in 1..Len(loggers), in \in InFlightInputs :
       Len(calls) < MaxCalls /\ LogCall(i, in.method, in.arg1, in.tags, in.primary)
  \/ \E k \in 1..Len(writes), ok \in BOOLEAN : CompleteWrite(k, ok)
  \/ \E i \in 1..Len(loggers), token \in AssignedLevels : AssignLevel(i, token)
  \/ \E i \in 1..Len(loggers), d \in AssignedDestinations : AssignDestinations(i, d)
  \/ \E i \in 1..Len(loggers), f \in AssignedLogFunctions : AssignLogFunctions(i, f)

SpecInFlight == InitAfterFirst /\ [][NextInFlight]_vars

(* ------------------------------------------------------------------ *)
(* Overlapping calls: log calls made one after the other on one logger  *)
(* without awaiting the earlier ones, on sinks that serialize the       *)
(* writes they receive.                                                 *)
(* ------------------------------------------------------------------ *)
OverlapConfigs ==
  {Config({}, LoggerOf("DEBUG", <<CallerFilename>>, d, <<"defaultText">>)) :
     d \in {<<SinkA, SinkB>>, <<SinkA>>, <<SinkA, SinkA>>}}
  \cup {Config({Stdout, Stderr}, LoggerOf("DEBUG", <<CallerFilename>>, <<Stdout, Stderr>>, <<"defaultText">>))}

InitOverlap ==
  /\ \E cfg \in OverlapConfigs :
       /\ ttys = cfg.ttys
       /\ loggers = <<cfg.logger>>
  /\ instance = 1
  /\ nOpen = 0
  /\ calls = <<>>
  /\ writes = <<>>
  /\ last = Op("new", 1, "none", NoOptions, FALSE)

NextOverlap ==
  \/ \E i \in 1..Len(loggers), in \in InFlightInputs :
       Len(calls) < MaxOverlap /\ LogCall(i, in.method, in.arg1, in.tags, in.primary)
  \/ \E k \in 1..Len(writes), ok \in BOOLEAN : OldestAtItsSink(k) /\ CompleteWrite(k, ok)

SpecOverlap == InitOverlap /\ [][NextOverlap]_vars

(* ------------------------------------------------------------------ *)
(* Progress of a call: sinks signal the completion of the writes they   *)
(* received, except sinkC, which accepts writes and never calls back.   *)
(* ------------------------------------------------------------------ *)
StalledSinks == {SinkC}

LiveConfigs ==
  {Config({}, LoggerOf("DEBUG", <<CallerFilename>>, d, <<"defaultText">>)) :
     d \in {<<SinkA, SinkB>>, <<SinkA, SinkC>>, <<SinkC, SinkB>>, <<SinkA>>, <<SinkC>>}}
  \cup {Config({Stdout, Stderr}, LoggerOf("DEBUG", <<CallerFilename>>, d, <<"defaultText">>)) :
     d \in {<<Stdout, Stderr>>, <<Stdout>>}}
  \cup {Config({}, LoggerOf("WARN", <<CallerFilename>>, <<SinkA, SinkB>>, <<"defaultText", "defaultJson">>))}

InitLive ==
  /\ \E cfg \in LiveConfigs :
       /\ ttys = cfg.ttys
       /\ loggers = <<cfg.logger>>
  /\ instance = 1
  /\ nOpen = 0
  /\ calls = <<>>
  /\ writes = <<>>
  /\ last = Op("new", 1, "none", NoOptions, FALSE)

\* A sink that is not stalled signals the completion of a write.
SinkCompletes ==
  \E k \in 1..Len(writes), ok \in BOOLEAN :
    writes[k].sink \notin StalledSinks /\ CompleteWrite(k, ok)

NextLive ==
  \/ \E i \in 1..Len(loggers), in \in InFlightInputs :
       Len(calls) < MaxCalls /\ LogCall(i, in.method, in.arg1, in.tags, in.primary)
  \/ SinkCompletes

\* Fair scheduling of sink completions: an outstanding write to a sink that
\* is not stalled is eventually completed.
SpecLive == InitLive /\ [][NextLive]_vars /\ WF_vars(SinkCompletes)

(* ------------------------------------------------------------------ *)
(* The level ordering: isFirstLoglevelGreaterEqualSecond on every pair  *)
(* of tokens, and the verbosity checks of a logger at every level.      *)
(* ------------------------------------------------------------------ *)
isErrorOrVerboser(logger) == isFirstLoglevelGreaterEqualSecond(logger.level, "ERROR")
isWarnOrVerboser(logger) == isFirstLoglevelGreaterEqualSecond(logger.level, "WARN")
isInfoOrVerboser(logger) == isFirstLoglevelGreaterEqualSecond(logger.level, "INFO")
isDebugOrVerboser(logger) == isFirstLoglevelGreaterEqualSecond(logger.level, "DEBUG")

VerbosityChecks == {"isErrorOrVerboser", "isWarnOrVerboser", "isInfoOrVerboser", "isDebugOrVerboser"}

verbosityCheck(check, logger) ==
  CASE check = "isErrorOrVerboser" -> isErrorOrVerboser(logger)
    [] check = "isWarnOrVerboser" -> isWarnOrVerboser(logger)
    [] check = "isInfoOrVerboser" -> isInfoOrVerboser(logger)
    [] OTHER -> isDebugOrVerboser(logger)

\* A direct use of isFirstLoglevelGreaterEqualSecond.
CompareLevels(first, second) ==
  LET r == isFirstLoglevelGreaterEqualSecond(first, second)
  IN  /\ last' = [Op("isFirstLoglevelGreaterEqualSecond", 0, IF r.threw THEN "Error" ELSE "none",
                     NoOptions, r.value) EXCEPT !.args = <<first, second>>]
      /\ UNCHANGED <<ttys, loggers, instance, nOpen, calls, writes>>

\* logger.isErrorOrVerboser() ... logger.isDebugOrVerboser().
VerbosityCheck(i, check) ==
  LET r == verbosityCheck(check, loggers[i])
  IN  /\ i \in 1..Len(loggers)
      /\ last' = Op(check, i, IF r.threw THEN "Error" ELSE "none", NoOptions, r.value)
      /\ UNCHANGED <<ttys, loggers, instance, nOpen, calls, writes>>

InitLevels ==
  /\ ttys = {}
  /\ \E l \in LevelTokens :
       loggers = <<LoggerOf(l, <<CallerFilename>>, <<SinkA, SinkB>>, <<"defaultText">>)>>
  /\ instance = 1
  /\ nOpen = 0
  /\ calls = <<>>
  /\ writes = <<>>
  /\ last = Op("new", 1, "none", NoOptions, FALSE)

NextLevels ==
  \/ \E first \in LevelTokens, second \in LevelTokens : CompareLevels(first, second)
  \/ \E i \in 1..Len(loggers), check \in VerbosityChecks : VerbosityCheck(i, check)

SpecLevels == InitLevels /\ [][NextLevels]_vars

(* ------------------------------------------------------------------ *)
(* Vocabulary of the properties.                                        *)
(* ------------------------------------------------------------------ *)
\* The position of a level in OFF < ERROR < WARN < INFO < DEBUG.
Position(level) ==
  CASE level = "OFF" -> 0
    [] level = "ERROR" -> 1
    [] level = "WARN" -> 2
    [] level = "INFO" -> 3
    [] level = "DEBUG" -> 4

\* The tags a call passes, as a sequence: a single string is one tag.
ItemsOf(tags) == IF tags.isArray THEN tags.items ELSE <<tags.str>>

HasAlways(tags) == \E n \in 1..Len(ItemsOf(tags)) : ItemsOf(tags)[n] = "always"

Calls == 1..Len(calls)

\* The writes log function f of call c has issued so far.
WritesOf(c, f) == {k \in 1..Len(writes) : writes[k].call = c /\ writes[k].fn = f}

WritesOfCall(c) == {k \in 1..Len(writes) : writes[k].call = c}

WritesTo(c, f, sink) == {k \in WritesOf(c, f) : writes[k].sink = sink}

BuiltinFnsOf(c) == {f \in 1..Len(calls[c].logFunctions) : calls[c].logFunctions[f] \in BuiltinFns}

\* Call c went through one of error/warn/info/debug or their tagged variants.
IsLevelMethodCall(c) == calls[c].method \in LevelMethods \cup TaggedLevelMethods

\* Call c was made on a logger whose level is one of the five levels, with a
\* built-in log function and at least one destination.
OnWorkingLogger(c) ==
  /\ calls[c].loggerLevel \in LevelNameSet
  /\ BuiltinFnsOf(c) # {}
  /\ Len(calls[c].destinations) >= 1

\* The promise of log function f of call c has settled.
FnSettled(c, f) == calls[c].fns[f].state \in {"resolved", "rejected"}

(* ------------------------------------------------------------------ *)
(* C1.  Level filter: a call of level M through error/warn/info/debug   *)
(* (or a tagged variant) whose tags do not hold "always", on a logger of *)
(* level L with a built-in log function and at least one destination,   *)
(* writes to some destination iff Position(L) >= Position(M).           *)
(* ------------------------------------------------------------------ *)
C1_LevelFilter ==
  \A c \in Calls :
    (IsLevelMethodCall(c) /\ ~HasAlways(calls[c].tags) /\ OnWorkingLogger(c))
    => (WritesOfCall(c) # {} <=> Position(calls[c].loggerLevel) >= Position(calls[c].level))

\* An info call without tags at level DEBUG on a logger whose single
\* destination is a terminal: the message passes the level filter and no
\* destination receives a write.
C1_Witness ==
  \E c \in Calls :
    /\ calls[c].method = "info" /\ calls[c].loggerLevel = "DEBUG"
    /\ Len(calls[c].destinations) = 1
    /\ isInteractive(calls[c].destinations[1], ttys)
    /\ WritesOfCall(c) = {}

(* ------------------------------------------------------------------ *)
(* C2.  "always": a call whose tags hold "always", passed as a sequence *)
(* or as a single string, is written to a destination at every logger   *)
(* level (OFF included) and every message level.                        *)
(* ------------------------------------------------------------------ *)
C2_AlwaysIsWritten ==
  \A c \in Calls :
    (HasAlways(calls[c].tags) /\ OnWorkingLogger(c)) => WritesOfCall(c) # {}

\* A call tagged "always" on a logger whose single destination is a
\* terminal: nothing is written.
C2_Witness ==
  \E c \in Calls :
    /\ HasAlways(calls[c].tags)
    /\ OnWorkingLogger(c)
    /\ Len(calls[c].destinations) = 1
    /\ isInteractive(calls[c].destinations[1], ttys)
    /\ WritesOfCall(c) = {}

(* ------------------------------------------------------------------ *)
(* C3.  Two distinct sinks that are no interactive terminals: a logged  *)
(* ERROR or WARN message is written to destinations[1] and, once the    *)
(* log function has settled, to destinations[0] with the same line; a   *)
(* logged INFO or DEBUG message is written to destinations[0] and never *)
(* to destinations[1].                                                  *)
(* ------------------------------------------------------------------ *)
TwoDistinctSinks(c) ==
  /\ Len(calls[c].destinations) >= 2
  /\ calls[c].destinations[1] # calls[c].destinations[2]

C3_FanOutToBoth ==
  \A c \in Calls : \A f \in BuiltinFnsOf(c) :
    LET d0 == calls[c].destinations[1]
        d1 == calls[c].destinations[2]
    IN  (/\ ~calls[c].threw /\ calls[c].shouldBeLogged
         /\ TwoDistinctSinks(c)
         /\ ~isInteractive(d0, ttys) /\ ~isInteractive(d1, ttys))
        => /\ calls[c].level \in {"ERROR", "WARN"} =>
                /\ WritesTo(c, f, d1) # {}
                /\ FnSettled(c, f) =>
                     \E k0 \in WritesTo(c, f, d0) : \E k1 \in WritesTo(c, f, d1) :
                       writes[k0].line = writes[k1].line
           /\ calls[c].level \in {"INFO", "DEBUG"} =>
                /\ WritesTo(c, f, d0) # {}
                /\ WritesTo(c, f, d1) = {}

\* A WARN message on two distinct sinks that carry isTTY = false: the log
\* function has resolved and destinations[0] has received nothing.
C3_Witness ==
  \E c \in Calls : \E f \in BuiltinFnsOf(c) :
    /\ ~calls[c].threw /\ calls[c].shouldBeLogged
    /\ TwoDistinctSinks(c)
    /\ calls[c].destinations[1] \in FalseTtySinks
    /\ calls[c].destinations[2] \in FalseTtySinks
    /\ calls[c].level = "WARN"
    /\ calls[c].fns[f].state = "resolved"
    /\ WritesTo(c, f, calls[c].destinations[1]) = {}

(* ------------------------------------------------------------------ *)
(* C4.  Two distinct sinks that both are interactive terminals: a       *)
(* logged ERROR or WARN message is written exactly once, to             *)
(* destinations[1], and never to destinations[0]; a logged INFO or      *)
(* DEBUG message is written to destinations[0] only.                    *)
(* ------------------------------------------------------------------ *)
BothInteractive(c) ==
  /\ TwoDistinctSinks(c)
  /\ isInteractive(calls[c].destinations[1], ttys)
  /\ isInteractive(calls[c].destinations[2], ttys)

C4_ConsoleDeduplication ==
  \A c \in Calls : \A f \in BuiltinFnsOf(c) :
    LET d0 == calls[c].destinations[1]
        d1 == calls[c].destinations[2]
    IN  (~calls[c].threw /\ calls[c].shouldBeLogged /\ BothInteractive(c))
        => /\ calls[c].level \in {"ERROR", "WARN"} =>
                /\ Cardinality(WritesOf(c, f)) = 1
                /\ WritesTo(c, f, d1) = WritesOf(c, f)
                /\ WritesTo(c, f, d0) = {}
           /\ calls[c].level \in {"INFO", "DEBUG"} =>
                /\ Cardinality(WritesOf(c, f)) = 1
                /\ WritesTo(c, f, d0) = WritesOf(c, f)

\* An ERROR message on two terminals whose single write has completed.
C4_Witness ==
  \E c \in Calls : \E f \in BuiltinFnsOf(c) :
    /\ calls[c].shouldBeLogged /\ BothInteractive(c)
    /\ calls[c].level = "ERROR"
    /\ calls[c].fns[f].state = "resolved"
    /\ WritesTo(c, f, calls[c].destinations[2]) # {}

(* ------------------------------------------------------------------ *)
(* C5.  destinations[0] and destinations[1] are the same sink: every    *)
(* logged message is written exactly once to it by each built-in log    *)
(* function, at every level, terminal or not.                           *)
(* ------------------------------------------------------------------ *)
SharedSink(c) ==
  /\ Len(calls[c].destinations) >= 2
  /\ calls[c].destinations[1] = calls[c].destinations[2]

C5_SharedSinkOnce ==
  \A c \in Calls : \A f \in BuiltinFnsOf(c) :
    (~calls[c].threw /\ calls[c].shouldBeLogged /\ SharedSink(c))
    => /\ Cardinality(WritesOf(c, f)) = 1
       /\ WritesTo(c, f, calls[c].destinations[1]) = WritesOf(c, f)

\* A WARN or ERROR message on a shared sink whose log function has resolved.
C5_Witness ==
  \E c \in Calls : \E f \in BuiltinFnsOf(c) :
    /\ calls[c].shouldBeLogged /\ SharedSink(c)
    /\ calls[c].level \in {"ERROR", "WARN"}
    /\ calls[c].fns[f].state = "resolved"
    /\ Cardinality(WritesTo(c, f, calls[c].destinations[1])) = 1

(* ------------------------------------------------------------------ *)
(* C6.  Exactly one destination: every logged message, at every level,  *)
(* is written exactly once to destinations[0] and the promise of the    *)
(* call is not rejected, whatever kind of sink destinations[0] is.      *)
(* ------------------------------------------------------------------ *)
C6_SingleDestination ==
  \A c \in Calls : \A f \in BuiltinFnsOf(c) :
    (~calls[c].threw /\ calls[c].shouldBeLogged /\ Len(calls[c].destinations) = 1)
    => /\ Cardinality(WritesOf(c, f)) = 1
       /\ WritesTo(c, f, calls[c].destinations[1]) = WritesOf(c, f)
       /\ promiseAll(calls[c].fns) # "rejected"

\* A logged message on a logger whose single destination is a terminal:
\* the promise of the call is rejected and nothing was written.
C6_Witness ==
  \E c \in Calls :
    /\ ~calls[c].threw /\ calls[c].shouldBeLogged
    /\ Len(calls[c].destinations) = 1
    /\ isInteractive(calls[c].destinations[1], ttys)
    /\ promiseAll(calls[c].fns) = "rejected"
    /\ WritesOfCall(c) = {}

(* ------------------------------------------------------------------ *)
(* C7.  The promise of a log call resolves only after every write the   *)
(* call selected (to the stream written first and, when there is one,   *)
(* the stream written second) has been issued and has completed.        *)
(* ------------------------------------------------------------------ *)
C7_CompletionAfterWrites ==
  \A c \in Calls :
    (~calls[c].threw /\ promiseAll(calls[c].fns) = "resolved")
    => /\ \A k \in WritesOfCall(c) : writes[k].state # "pending"
       /\ \A f \in BuiltinFnsOf(c) :
            calls[c].shouldBeLogged =>
              /\ WritesTo(c, f, calls[c].fns[f].streamA) # {}
              /\ calls[c].fns[f].streamB # NoSink => WritesTo(c, f, calls[c].fns[f].streamB) # {}

\* A resolved call that wrote to both destinations.
C7_Witness ==
  \E c \in Calls :
    /\ ~calls[c].threw /\ promiseAll(calls[c].fns) = "resolved"
    /\ \E f \in BuiltinFnsOf(c) : Cardinality(WritesOf(c, f)) = 2

(* ------------------------------------------------------------------ *)
(* C8.  A Logger constructed with the log-function name "defaultJson"   *)
(* registers the JSON formatter and one constructed with "defaultText"  *)
(* the text formatter: the registered function is the one of that name. *)
(* ------------------------------------------------------------------ *)
C8_BuiltinNamesResolve ==
  \A name \in BuiltinFns :
    (/\ last.op \in {"new", "createFromArguments", "createFromConfigFile"}
     /\ last.err = "none"
     /\ last.options.hasFns
     /\ last.options.logFunctions = <<FnName(name)>>)
    => loggers[last.logger].logFunctions = <<name>>

\* A Logger constructed with the name "defaultJson" holds the text formatter.
C8_Witness ==
  /\ last.op \in {"new", "createFromArguments", "createFromConfigFile"}
  /\ last.err = "none"
  /\ last.options.hasFns
  /\ last.options.logFunctions = <<FnName("defaultJson")>>
  /\ loggers[last.logger].logFunctions = <<"defaultText">>

(* ------------------------------------------------------------------ *)
(* C9.  The tags of a message are the tags of the logger followed by    *)
(* the tags of the call, order and duplicates kept; a single string is  *)
(* appended as one tag; a call without tags carries the logger's tags.  *)
(* ------------------------------------------------------------------ *)
C9_TagMerging ==
  \A c \in Calls :
    ~calls[c].threw =>
      /\ calls[c].message.tags = calls[c].loggerTags \o ItemsOf(calls[c].tags)
      /\ calls[c].method \in LevelMethods => calls[c].message.tags = calls[c].loggerTags
      /\ \A k \in WritesOfCall(c) :
           calls[c].logFunctions[writes[k].fn] = "defaultJson" =>
             \E n \in 1..Len(writes[k].line) :
               SubSeq(writes[k].line, n, n + Len(jsonStrings(calls[c].message.tags)) + 2)
                 = <<"\"tags\":", "[">> \o jsonStrings(calls[c].loggerTags \o ItemsOf(calls[c].tags)) \o <<"]">>

\* A call with duplicate tags and a call with a single string as its tag.
C9_Witness ==
  \E c \in Calls :
    /\ ~calls[c].threw
    /\ calls[c].tags = DupTags
    /\ calls[c].message.tags = <<CallerFilename, "t", "t">>
    /\ WritesOfCall(c) # {}

(* ------------------------------------------------------------------ *)
(* C10.  Level ordering: for levels L1 (in any case) and L2,            *)
(* isFirstLoglevelGreaterEqualSecond(L1, L2) is true iff Position(L1)   *)
(* >= Position(L2); each verbosity check of a logger is true iff its    *)
(* level is at least as verbose as the threshold of the check.          *)
(* ------------------------------------------------------------------ *)
Threshold(check) ==
  CASE check = "isErrorOrVerboser" -> "ERROR"
    [] check = "isWarnOrVerboser" -> "WARN"
    [] check = "isInfoOrVerboser" -> "INFO"
    [] check = "isDebugOrVerboser" -> "DEBUG"

C10_LevelOrdering ==
  /\ (/\ last.op = "isFirstLoglevelGreaterEqualSecond"
      /\ toUpperCase(last.args[1]) \in LevelNameSet
      /\ last.args[2] \in LevelNameSet)
     => /\ last.err = "none"
        /\ last.value = (Position(toUpperCase(last.args[1])) >= Position(last.args[2]))
  /\ (/\ last.op \in VerbosityChecks
      /\ toUpperCase(loggers[last.logger].level) \in LevelNameSet)
     => /\ last.err = "none"
        /\ last.value = (Position(toUpperCase(loggers[last.logger].level))
                           >= Position(Threshold(last.op)))

\* The logger at level INFO answers false to isDebugOrVerboser.
C10_Witness ==
  /\ last.op = "isDebugOrVerboser"
  /\ loggers[last.logger].level = "INFO"
  /\ last.value = FALSE

IsGenericCall(c) == calls[c].method \in {"log", "log2"}

C12_DispatchValidatesLevel ==
  \A c \in Calls :
    (IsGenericCall(c) /\ toUpperCase(calls[c].arg1) \notin LevelNameSet)
    => /\ calls[c].threw
       /\ calls[c].fns = <<>>
       /\ WritesOfCall(c) = {}

\* C12, amended.  A leading token that is exactly one of the five level
\* names is the level of the message.  Any other leading argument raises no
\* error of its own: log takes it for the format string, log2 for the tags,
\* and the message is dispatched at level INFO to every registered log
\* function; the call throws only when the level of the logger is no level.
C12_UnknownTokenIsNoLevel ==
  \A c \in Calls :
    IsGenericCall(c) =>
      /\ calls[c].arg1 \in LevelNameSet => calls[c].level = calls[c].arg1
      /\ calls[c].arg1 \notin LevelNameSet =>
           /\ calls[c].level = "INFO"
           /\ calls[c].method = "log" =>
                /\ calls[c].tags = NoTags
                /\ Head(calls[c].message.text) = calls[c].arg1
           /\ calls[c].method = "log2" => calls[c].tags = TagString(calls[c].arg1)
      /\ calls[c].threw <=> toUpperCase(calls[c].loggerLevel) \notin LevelNameSet
      /\ ~calls[c].threw =>
           /\ Len(calls[c].fns) = Len(calls[c].logFunctions)
           /\ calls[c].shouldBeLogged
                = (\/ Position(toUpperCase(calls[c].loggerLevel)) >= Position(calls[c].level)
                   \/ HasAlways(calls[c].tags))

\* log("TRACE", ...) at a logger level that lets INFO pass: written as an
\* INFO message whose text starts with the token.
C12_Witness ==
  \E c \in Calls :
    /\ calls[c].method = "log" /\ calls[c].arg1 = "TRACE"
    /\ ~calls[c].threw
    /\ calls[c].message.level = "INFO"
    /\ Head(calls[c].message.text) = "TRACE"
    /\ WritesOfCall(c) # {}

(* ------------------------------------------------------------------ *)
(* C13.  OFF silences the logger: while the level of the logger is OFF, *)
(* no call whose tags lack "always" causes a write, whatever the level  *)
(* of the message (log and log2 with the token "OFF" included).         *)
(* ------------------------------------------------------------------ *)
C13_OffSilences ==
  \A c \in Calls :
    (calls[c].loggerLevel = "OFF" /\ ~HasAlways(calls[c].tags)) => WritesOfCall(c) = {}

\* log("OFF", ...) on a logger at level OFF is written.
C13_Witness ==
  \E c \in Calls :
    /\ calls[c].loggerLevel = "OFF"
    /\ calls[c].method = "log" /\ calls[c].arg1 = "OFF"
    /\ ~HasAlways(calls[c].tags)
    /\ calls[c].shouldBeLogged
    /\ WritesOfCall(c) # {}

(* ------------------------------------------------------------------ *)
(* C14.  "always" in the merged tags.  As claimed: a message passes the *)
(* filter whenever "always" occurs among its merged tags (the tags of   *)
(* the logger followed by the tags of the call), so a logger created    *)
(* with the tag "always" writes every message.                          *)
(* ------------------------------------------------------------------ *)
InMergedTags(c, tag) ==
  \E n \in 1..Len(calls[c].message.tags) : calls[c].message.tags[n] = tag

C14_AlwaysInMergedTags ==
  \A c \in Calls :
    (~calls[c].threw /\ InMergedTags(c, "always")) => calls[c].shouldBeLogged

\* C14, amended.  Only the tags of the call count: a call whose own tags
\* hold "always" passes the filter; a call whose own tags lack it and whose
\* level is more verbose than the level of the logger is filtered and writes
\* nothing, also when the tags of the logger hold "always".
C14_AlwaysInCallTagsOnly ==
  \A c \in Calls :
    ~calls[c].threw =>
      /\ HasAlways(calls[c].tags) => calls[c].shouldBeLogged
      /\ (/\ ~HasAlways(calls[c].tags)
          /\ Position(toUpperCase(calls[c].loggerLevel)) < Position(calls[c].level))
         => /\ ~calls[c].shouldBeLogged
            /\ WritesOfCall(c) = {}
            /\ \A f \in BuiltinFnsOf(c) : calls[c].fns[f].state = "resolved"

\* An info call without tags on a logger at level WARN created with the tag
\* "always": the message carries the tag and is filtered.
C14_Witness ==
  \E c \in Calls :
    /\ ~calls[c].threw
    /\ calls[c].loggerTags = <<"always">>
    /\ calls[c].loggerLevel = "WARN" /\ calls[c].method = "info"
    /\ InMergedTags(c, "always")
    /\ ~calls[c].shouldBeLogged
    /\ WritesOfCall(c) = {}

(* ------------------------------------------------------------------ *)
(* C15.  The filter as the specification words it: a message whose      *)
(* level is strictly less verbose than the level of the logger, and     *)
(* whose tags lack "always", causes no write.                           *)
(* ------------------------------------------------------------------ *)
C15_LessVerboseNotWritten ==
  \A c \in Calls :
    (/\ ~calls[c].threw /\ ~HasAlways(calls[c].tags)
     /\ Position(calls[c].level) < Position(toUpperCase(calls[c].loggerLevel)))
    => WritesOfCall(c) = {}

\* C15, amended: the direction is the other one.  A message whose level is
\* strictly more verbose than the level of the logger, and whose tags lack
\* "always", causes no write and the promise of the call is resolved at once.
C15_MoreVerboseNotWritten ==
  \A c \in Calls :
    (/\ ~calls[c].threw /\ ~HasAlways(calls[c].tags)
     /\ Position(calls[c].level) > Position(toUpperCase(calls[c].loggerLevel)))
    => /\ WritesOfCall(c) = {}
       /\ \A f \in 1..Len(calls[c].fns) :
            calls[c].logFunctions[f] \in BuiltinFns =>
              /\ calls[c].fns[f].state = "resolved"
              /\ calls[c].fns[f].streamA = NoSink

\* A debug call on a logger at level INFO: nothing is written.
C15_Witness ==
  \E c \in Calls :
    /\ ~calls[c].threw
    /\ calls[c].method = "debug" /\ calls[c].loggerLevel = "INFO"
    /\ Len(calls[c].destinations) >= 1 /\ BuiltinFnsOf(c) # {}
    /\ promiseAll(calls[c].fns) = "resolved"
    /\ WritesOfCall(c) = {}

(* ------------------------------------------------------------------ *)
(* C16.  Factory cloning: when a Logger exists, createFromArguments and *)
(* createFromConfigFile take nothing from the options passed or from    *)
(* the configuration file: the logger returned has the level, the       *)
(* destination sinks (same handles, same order) and the log functions   *)
(* that Logger.instance holds at the time of the call, the loggers that *)
(* exist are left as they are and no destination is opened.             *)
(* ------------------------------------------------------------------ *)
Factories == {"createFromArguments", "createFromConfigFile"}

\* This step is a call of a factory.
FactoryStep == last'.op \in Factories /\ vars' # vars

C16_FactoryCloning ==
  [][(instance # 0 /\ FactoryStep) =>
       /\ nOpen' = nOpen
       /\ last'.err = "none" =>
            /\ Len(loggers') = Len(loggers) + 1
            /\ SubSeq(loggers', 1, Len(loggers)) = loggers
            /\ loggers'[Len(loggers')].level = loggers[instance].level
            /\ loggers'[Len(loggers')].destinations = loggers[instance].destinations
            /\ loggers'[Len(loggers')].logFunctions = loggers[instance].logFunctions]_vars

\* A logger constructed with the defaults, then given another level and
\* other destinations, then cloned by a factory: the clone has the assigned
\* values.
C16_Witness ==
  /\ last.op \in Factories /\ last.err = "none" /\ last.logger = 2
  /\ loggers[1].level = "INFO" /\ loggers[2].level = "INFO"
  /\ loggers[1].destinations = <<SinkA, SinkB>>
  /\ loggers[2].destinations = <<SinkA, SinkB>>
  /\ loggers[2].logFunctions = loggers[1].logFunctions

(* ------------------------------------------------------------------ *)
(* C17.  Only the options of the first construction apply.  As claimed: *)
(* after any constructions and assignments to the fields of loggers,    *)
(* every logger constructed after the first has the level, the sinks    *)
(* and the log functions the first construction resolved.               *)
(* ------------------------------------------------------------------ *)
SameSettings(a, b) ==
  /\ a.level = b.level
  /\ a.destinations = b.destinations
  /\ a.logFunctions = b.logFunctions

C17_OnlyFirstOptionsApply ==
  [][Len(loggers') = Len(loggers) + 1 =>
       SameSettings(loggers'[Len(loggers')], FirstLogger)]_vars

\* C17, amended.  A logger returned by a factory after the first
\* construction has the level, the sinks and the log functions the logger
\* constructed before it holds at that time, values assigned to its fields
\* included; a logger constructed with new Logger(options) has the level of
\* its own options.
C17_LatestSettingsApply ==
  /\ (last.op \in Factories /\ last.err = "none" /\ last.logger >= 2)
     => SameSettings(loggers[last.logger], loggers[last.logger - 1])
  /\ (last.op = "new" /\ last.err = "none")
     => loggers[last.logger].level
          = IF last.options.level = Undefined THEN defaultOptions.level ELSE last.options.level

\* The first logger was given other destinations and then cloned: the clone
\* writes to the assigned sinks, not to those of node-logger.json.
C17_Witness ==
  /\ last.op \in Factories /\ last.err = "none" /\ last.logger = 2
  /\ loggers[1].destinations = <<SinkA, SinkB>>
  /\ loggers[2].destinations = <<SinkA, SinkB>>
  /\ FirstLogger.destinations # <<SinkA, SinkB>>

(* ------------------------------------------------------------------ *)
(* C18.  Write failure propagation: when a sink reports through the     *)
(* callback of a write that the write failed, the promise of the log    *)
(* call that issued it is rejected and not resolved; the write is not   *)
(* issued again.                                                        *)
(* ------------------------------------------------------------------ *)
FailedWritesOf(c) == {k \in WritesOfCall(c) : writes[k].state = "failed"}

C18_WriteFailureRejects ==
  \A c \in Calls :
    FailedWritesOf(c) # {} =>
      /\ promiseAll(calls[c].fns) = "rejected"
      /\ \A k \in FailedWritesOf(c) :
           Cardinality({j \in WritesOf(c, writes[k].fn) : writes[j].slot = writes[k].slot}) = 1

\* The only write of a call has failed and the promise of the call is
\* resolved.
C18_Witness ==
  \E c \in Calls :
    /\ WritesOfCall(c) # {}
    /\ FailedWritesOf(c) = WritesOfCall(c)
    /\ promiseAll(calls[c].fns) = "resolved"

(* ------------------------------------------------------------------ *)
(* C19.  Independent destination writes.  As claimed: for a message     *)
(* selected for destinations[1] and destinations[0], the write to each  *)
(* is issued whatever becomes of the other write: completed, failed or  *)
(* never completed.                                                     *)
(* ------------------------------------------------------------------ *)
\* Log function f of call c has chosen two streams.
WritesBoth(c, f) ==
  /\ ~calls[c].threw /\ calls[c].shouldBeLogged
  /\ calls[c].logFunctions[f] \in BuiltinFns
  /\ calls[c].fns[f].streamA # NoSink
  /\ calls[c].fns[f].streamB # NoSink

SlotWrites(c, f, slot) == {k \in WritesOf(c, f) : writes[k].slot = slot}

C19_IndependentWrites ==
  \A c \in Calls : \A f \in 1..Len(calls[c].fns) :
    WritesBoth(c, f) =>
      /\ SlotWrites(c, f, "A") # {}
      /\ SlotWrites(c, f, "B") # {}

\* C19, amended.  The write to destinations[1] is issued at dispatch.  The
\* write to destinations[0] is issued when the write to destinations[1] has
\* signalled its completion, with or without an error, and not before: it
\* is not issued while that write is outstanding.
C19_SecondWriteFollowsFirst ==
  \A c \in Calls : \A f \in 1..Len(calls[c].fns) :
    WritesBoth(c, f) =>
      /\ \E k \in SlotWrites(c, f, "A") : writes[k].sink = calls[c].destinations[2]
      /\ SlotWrites(c, f, "B") # {}
           <=> (\E k \in SlotWrites(c, f, "A") : writes[k].state \in {"done", "failed"})
      /\ \A k \in SlotWrites(c, f, "B") : writes[k].sink = calls[c].destinations[1]

\* The write to destinations[1] has failed and the write to destinations[0]
\* has been issued and has completed.
C19_Witness ==
  \E c \in Calls : \E f \in 1..Len(calls[c].fns) :
    /\ WritesBoth(c, f)
    /\ \E k \in SlotWrites(c, f, "A") : writes[k].state = "failed"
    /\ \E k \in SlotWrites(c, f, "B") : writes[k].state = "done"

(* ------------------------------------------------------------------ *)
(* C20.  Dispatch snapshot: an assignment to the level, the             *)
(* destinations or the log functions of a logger, made after a call was *)
(* dispatched and before its writes have completed, changes neither the *)
(* sinks the call writes to nor the line it writes: every write of the  *)
(* call, the second one (to destinations[0]) included, goes to a sink   *)
(* the logger had at dispatch, with the line built at dispatch.         *)
(* ------------------------------------------------------------------ *)
C20_DispatchSnapshot ==
  \A c \in Calls : \A k \in WritesOfCall(c) :
    LET f == writes[k].fn
    IN  /\ writes[k].line = lineOf(calls[c].logFunctions[f], calls[c].message)
        /\ calls[c].message.level = calls[c].level
        /\ writes[k].slot = "A" => writes[k].sink = calls[c].fns[f].streamA
        /\ writes[k].slot = "B" =>
             /\ writes[k].sink = calls[c].destinations[1]
             /\ calls[c].fns[f].streamA = calls[c].destinations[2]

\* An ERROR call whose second write was issued to the destinations[0] of
\* dispatch while the logger has other destinations, another level and
\* other log functions by now.
C20_Witness ==
  \E c \in Calls : \E k \in WritesOfCall(c) :
    /\ writes[k].slot = "B"
    /\ writes[k].sink = FileStream(1)
    /\ loggers[calls[c].logger].destinations = <<SinkA, SinkB>>
    /\ loggers[calls[c].logger].level # calls[c].loggerLevel
    /\ loggers[calls[c].logger].logFunctions # calls[c].logFunctions

(* ------------------------------------------------------------------ *)
(* C21  Call order on a serializing sink.                               *)
(* ------------------------------------------------------------------ *)
\* Write k1 and write k2 go to the same sink, k1 for an earlier call.
SameSinkEarlierCall(k1, k2) ==
  /\ writes[k1].sink = writes[k2].sink
  /\ writes[k1].call < writes[k2].call

ArgsOf(c) ==
  [message |-> calls[c].message, shouldBeLogged |-> calls[c].shouldBeLogged,
   destinations |-> calls[c].destinations]

\* C22: a log call that doLog dispatches invokes every registered log
\* function exactly once, each with the same message, the same shouldLog value
\* and the same destination list, also when shouldLog is false; and the
\* promise of the call is resolved only when the promise of every registered
\* log function is resolved.
C22_LogFunctionJoin ==
  \A c \in Calls :
    ~calls[c].threw =>
      /\ Len(calls[c].fns) = Len(calls[c].logFunctions)
      /\ \A f \in 1..Len(calls[c].fns) :
           /\ calls[c].fns[f].fn = calls[c].logFunctions[f]
           /\ calls[c].fns[f].args = ArgsOf(c)
      /\ promiseAll(calls[c].fns) = "resolved" =>
           \A f \in 1..Len(calls[c].logFunctions) : calls[c].fns[f].state = "resolved"

\* A filtered call (shouldLog false) on a logger with two log functions:
\* both were invoked and the call is resolved.
C22_Witness ==
  \E c \in Calls :
    /\ ~calls[c].threw /\ ~calls[c].shouldBeLogged
    /\ Len(calls[c].logFunctions) = 2
    /\ Len(calls[c].fns) = 2
    /\ calls[c].fns[1].fn # calls[c].fns[2].fn
    /\ promiseAll(calls[c].fns) = "resolved"

(* ------------------------------------------------------------------ *)
(* C23  No partial construction.                                        *)
(* ------------------------------------------------------------------ *)
Constructions == {"new", "createFromArguments", "createFromConfigFile"}

\* The step is a construction that threw.
FailedConstruction == last'.op \in Constructions /\ last'.err # "none"

\* C23: a Logger construction that fails (a level token that is no level, a
\* destination that is no sink, a log-function reference that does not
\* resolve) leaves Logger.instance as it was, referring to the previously
\* constructed logger or to none, and has opened no destination sink.
C23_NoPartialConstruction ==
  [][FailedConstruction => (instance' = instance /\ loggers' = loggers /\ nOpen' = nOpen)]_vars

\* A first construction failed on its log-function reference after its
\* destinations were resolved: there is no logger and a file stream is open.
C23_Witness ==
  /\ last.op \in Constructions /\ last.err # "none"
  /\ instance = 0 /\ loggers = <<>>
  /\ nOpen = 1

(* ------------------------------------------------------------------ *)
(* C24  One physical line per JSON message.                             *)
(* ------------------------------------------------------------------ *)
\* The writes of the JSON formatter.
JsonWrites == {k \in 1..Len(writes) : calls[writes[k].call].fns[writes[k].fn].fn = "defaultJson"}

FieldKeys == {"\"isoDate\":", "\"level\":", "\"tags\":", "\"text\":", "\"stack\":", "\"date\":"}

IsFieldKey(token) == token \in FieldKeys

\* The field names of a JSON line, in the order they are written.
FieldsOf(line) == SelectSeq(line, IsFieldKey)

\* C24: every line the JSON formatter writes is one physical line: it ends
\* with the line terminator and holds no other line break, the line breaks
\* of the text and of the stack being escaped; its fields are isoDate, level,
\* tags, text and, for an Error, stack, in this order.
C24_OnePhysicalLine ==
  \A k \in JsonWrites :
    LET line == writes[k].line
        message == calls[writes[k].call].message
    IN  /\ Len(line) >= 2
        /\ line[1] = "{" /\ line[Len(line) - 1] = "}" /\ line[Len(line)] = EOL
        /\ \A n \in 1..(Len(line) - 1) : line[n] # LF
        /\ FieldsOf(line) =
             <<"\"isoDate\":", "\"level\":", "\"tags\":", "\"text\":">>
             \o (IF message.hasStack THEN <<"\"stack\":">> ELSE <<>>)

\* The JSON formatter wrote a message whose text holds a line break: the
\* line holds it escaped.
C24_Witness ==
  \E k \in JsonWrites :
    LET message == calls[writes[k].call].message
    IN  /\ \E n \in 1..Len(message.text) : message.text[n] = LF
        /\ \E n \in 1..Len(writes[k].line) : writes[k].line[n] = EscapedLF

(* ------------------------------------------------------------------ *)
(* C25  Interactive-terminal detection.                                 *)
(* ------------------------------------------------------------------ *)
\* Log function f of call c skips destinations[0]: it writes to one stream.
SkipsDest0(c, f) == calls[c].fns[f].streamB = NoSink

\* C25: isTty classifies a sink as interactive iff it is an interactive
\* terminal, so bothInteractive is true iff destinations[0] and
\* destinations[1] both are; a sink that only carries an isTTY attribute
\* whose value is false is non-interactive, and a logged WARN/ERROR message
\* to two distinct such sinks is written to both.
C25_InteractiveDetection ==
  \A c \in Calls : \A f \in BuiltinFnsOf(c) :
    (/\ ~calls[c].threw /\ calls[c].shouldBeLogged
     /\ TwoDistinctSinks(c)
     /\ calls[c].level \in {"ERROR", "WARN"})
    => /\ \A n \in 1..2 :
            isTty(calls[c].destinations[n], ttys).value
              <=> isInteractive(calls[c].destinations[n], ttys)
       /\ SkipsDest0(c, f) <=> BothInteractive(c)

\* An ERROR message on two distinct sinks that carry isTTY = false:
\* destinations[0] is skipped as if both were terminals.
C25_Witness ==
  \E c \in Calls : \E f \in BuiltinFnsOf(c) :
    /\ ~calls[c].threw /\ calls[c].shouldBeLogged
    /\ TwoDistinctSinks(c)
    /\ calls[c].level = "ERROR"
    /\ \A n \in 1..2 : calls[c].destinations[n] \in FalseTtySinks
    /\ ~BothInteractive(c)
    /\ SkipsDest0(c, f)
    /\ \E k \in WritesTo(c, f, calls[c].destinations[2]) : writes[k].state = "done"

(* ------------------------------------------------------------------ *)
(* C26  Last-instance reference.                                        *)
(* ------------------------------------------------------------------ *)
\* The step is a factory call that returned a logger.
FactoryReturned ==
  last'.op \in Factories /\ last'.err = "none" /\ Len(loggers') = Len(loggers) + 1

\* C26: after every successful construction, direct or through a factory,
\* Logger.instance is the logger constructed last, clones included; a factory
\* call clones the level, the sinks and the log functions that logger holds
\* at the time of the call, not those of the first logger or of another
\* earlier logger.
C26_LastInstance ==
  [][/\ instance' = Len(loggers')
     /\ FactoryReturned =>
          SameSettings(loggers'[Len(loggers')], loggers[Len(loggers)])]_vars

\* The second logger, constructed directly, was given another level; then
\* the first logger was given other destinations; the factory call that
\* followed returned a clone of the second logger, which differs from the
\* first logger as it was constructed and as it is now.
C26_Witness ==
  /\ Len(loggers) = 3 /\ instance = 3
  /\ last.op \in Factories /\ last.err = "none" /\ last.logger = 3
  /\ loggers[2].level = "INFO" /\ SecondLogger.level # "INFO"
  /\ loggers[1].destinations = <<SinkA, SinkB>>
  /\ SameSettings(loggers[3], loggers[2])
  /\ loggers[3].destinations # loggers[1].destinations
  /\ loggers[3].destinations # FirstLogger.destinations

(* ------------------------------------------------------------------ *)
(* C27  Tags of a factory-created logger.                               *)
(* ------------------------------------------------------------------ *)
\* C27: the tags of a logger that createFromConfigFile(tags) or
\* createFromArguments(options, tags) returns are the caller's file name
\* followed by `tags` and nothing else: the tags of the logger whose options
\* it clones are not inherited, and the tags of the loggers constructed
\* before are left as they were.
C27_FactoryTags ==
  [][FactoryReturned =>
       LET new == loggers'[Len(loggers')]
       IN  /\ Len(new.tags) >= 1
           /\ new.tags[1] = CallerFilename
           /\ Tail(new.tags) \in CreationTags
           /\ new.tags = last'.args
           /\ \A i \in 1..Len(loggers) : loggers'[i].tags = loggers[i].tags]_vars

\* The second logger has the tag "touch_feature"; a factory called without
\* tags returned its clone, whose only tag is the caller's file name.
C27_Witness ==
  /\ Len(loggers) = 3
  /\ last.op \in Factories /\ last.err = "none" /\ last.logger = 3
  /\ last.options.tags = <<"touch_feature">>
  /\ loggers[2].tags = <<"touch_feature">>
  /\ loggers[3].tags = <<CallerFilename>>

(* ------------------------------------------------------------------ *)
(* C28  Liveness of a log call.                                         *)
(* ------------------------------------------------------------------ *)
\* Call c was dispatched on a working logger and passes the filter.
DispatchedAndLogged(c) ==
  /\ c \in Calls
  /\ ~calls[c].threw
  /\ calls[c].shouldBeLogged
  /\ OnWorkingLogger(c)

\* No stream the log functions of call c selected is stalled: every write
\* the call issues is eventually completed.
NoStalledStream(c) ==
  \A f \in BuiltinFnsOf(c) :
    /\ calls[c].fns[f].streamA \notin StalledSinks
    /\ calls[c].fns[f].streamB \notin StalledSinks

\* Call c has issued a write to a sink that never signals completion.
WroteToStalled(c) ==
  c \in Calls /\ \E k \in WritesOfCall(c) : writes[k].sink \in StalledSinks

\* The promise of call c is in the given state.
PromiseIs(c, state) == c \in Calls /\ promiseAll(calls[c].fns) = state

\* C28: under fair scheduling of sink completions, a dispatched log call
\* that passes the filter eventually resolves if every write it issues is
\* eventually completed, and its promise stays pending forever if a write
\* it issued is never completed.
C28_CallLiveness ==
  /\ \A c \in 1..MaxCalls :
       [](DispatchedAndLogged(c) /\ NoStalledStream(c)
            => <>PromiseIs(c, "resolved"))
  /\ \A c \in 1..MaxCalls :
       [](WroteToStalled(c) => []PromiseIs(c, "pending"))

\* A logged call whose single destination is a terminal: it issued no write
\* and its promise is rejected.
C28_Witness ==
  \E c \in Calls :
    /\ DispatchedAndLogged(c) /\ NoStalledStream(c)
    /\ WritesOfCall(c) = {}
    /\ promiseAll(calls[c].fns) = "rejected"

(* ------------------------------------------------------------------ *)
(* C29  Write order within one call.                                    *)
(* ------------------------------------------------------------------ *)
\* The writes of log function f of call c that are outstanding.
Outstanding(c, f) == {k \in WritesOf(c, f) : writes[k].state = "pending"}

\* C29: for a WARN or ERROR message a log function writes to both
\* destinations, the write to destinations[1] is issued first, the write to
\* destinations[0] is issued only after the write to destinations[1] has
\* signalled completion, and the two writes are never outstanding at the
\* same time.
C29_WriteOrderWithinCall ==
  \A c \in Calls : \A f \in 1..Len(calls[c].fns) :
    (WritesBoth(c, f) /\ calls[c].level \in {"ERROR", "WARN"}) =>
      /\ \A k0 \in WritesTo(c, f, calls[c].destinations[1]) :
           \E k1 \in WritesTo(c, f, calls[c].destinations[2]) :
             /\ k1 < k0
             /\ writes[k1].state # "pending"
      /\ WritesOf(c, f) # {} =>
           \E k1 \in WritesTo(c, f, calls[c].destinations[2]) :
             \A k \in WritesOf(c, f) : k1 <= k
      /\ Cardinality(Outstanding(c, f)) <= 1

\* An ERROR message on two distinct sinks: the write to destinations[1] is
\* done and the write to destinations[0], issued after it, is outstanding.
C29_Witness ==
  \E c \in Calls : \E f \in 1..Len(calls[c].fns) :
    /\ WritesBoth(c, f) /\ calls[c].level = "ERROR"
    /\ \E k1 \in WritesTo(c, f, calls[c].destinations[2]) :
         \E k0 \in WritesTo(c, f, calls[c].destinations[1]) :
           /\ k1 < k0
           /\ writes[k1].state = "done"
           /\ writes[k0].state = "pending"

(* ------------------------------------------------------------------ *)
(* C30  Write bound.                                                    *)
(* ------------------------------------------------------------------ *)
\* The sinks of call c at index 2 or higher that are neither
\* destinations[0] nor destinations[1].
LaterSinks(c) ==
  {calls[c].destinations[n] : n \in 3..Len(calls[c].destinations)}
  \ {destAt(calls[c].destinations, 0), destAt(calls[c].destinations, 1)}

\* C30: for every log call and every registered built-in log function,
\* destinations[0] and destinations[1] each receive at most one write, at
\* most two writes are issued in all, and a destination at index 2 or
\* higher receives none, however many destinations are configured.
C30_WriteBound ==
  \A c \in Calls : \A f \in 1..Len(calls[c].fns) :
    calls[c].logFunctions[f] \in BuiltinFns =>
      /\ Cardinality(WritesOf(c, f)) <= 2
      /\ Cardinality(WritesTo(c, f, destAt(calls[c].destinations, 0))) <= 1
      /\ Cardinality(WritesTo(c, f, destAt(calls[c].destinations, 1))) <= 1
      /\ \A k \in WritesOf(c, f) :
           /\ writes[k].sink \in {destAt(calls[c].destinations, 0),
                                  destAt(calls[c].destinations, 1)}
           /\ writes[k].sink \notin LaterSinks(c)

\* A WARN message on a logger with three destinations: the call is resolved
\* after one write to each of destinations[0] and destinations[1], and
\* destinations[2] has received nothing.
C30_Witness ==
  \E c \in Calls : \E f \in 1..Len(calls[c].fns) :
    /\ ~calls[c].threw
    /\ calls[c].logFunctions[f] \in BuiltinFns
    /\ Len(calls[c].destinations) = 3
    /\ LaterSinks(c) # {}
    /\ calls[c].level = "WARN"
    /\ calls[c].fns[f].state = "resolved"
    /\ Cardinality(WritesOf(c, f)) = 2
    /\ Cardinality(WritesTo(c, f, calls[c].destinations[1])) = 1
    /\ Cardinality(WritesTo(c, f, calls[c].destinations[2])) = 1
    /\ WritesTo(c, f, calls[c].destinations[3]) = {}

====
